---- MODULE Spec2Model ----
(***************************************************************************)
(* State-machine model of the two scripts of the repository:               *)
(*   backend/generate_embedding.py  (the embedding updater)                *)
(*   extract_pdfs.py                (the PDF text dumper)                  *)
(* Each statement of a script that touches the outside world (database,    *)
(* embedding service, filesystem, standard output) is one action; the      *)
(* program counter of a run is the line number of the next statement.      *)
(***************************************************************************)
EXTENDS Integers, Sequences, FiniteSets, TLC

\* ------------------------------------------------------------------ bounds
\* content lengths explored on either side of the truncation limit
Slack == 2
\* distinct vectors the embedding service may return for one dimensionality
MaxSeed == 2
\* largest page count of a PDF file
MaxPages == 2

\* --------------------------------------------------------- program constants
\* content[:8000]
TruncLen == 8000
\* dimensionality of the vector column / of text-embedding-ada-002
EmbeddingDim == 1536
\* '='*80
BannerWidth == 80

EmbeddingModel == "text-embedding-ada-002"
\* the identifier in the SELECT statement
DocId == "e9eb2db2-29d9-480c-bbd1-b1666aa515c0"
\* another row of the documents table
OtherId == "00000000-0000-0000-0000-000000000001"
\* the runs of the updater that execute concurrently
ConcRuns == {1, 2}

VARIABLES
    \* ---- embedding updater: environment
    runs,        \* the updater processes that exist
    dotenv,      \* what `grep OPENAI_API_KEY .env | cut -d'=' -f2` yields
    db,          \* committed contents of table documents: id -> row
    db0,         \* the table before any run started (history)
    lock,        \* row-level write locks: id -> holding run, 0 when free
    commitOrder, \* runs in the order their commits happened (history)
    fetchOrder,  \* runs in the order their fetches happened (history)
    \* ---- embedding updater: per run
    pc,          \* line of the next statement, or "done" / "failed"
    fault,       \* what raised, "" while nothing did (history)
    api_key,
    conn,        \* "none" | "open" | "closed"
    cur,         \* "none" | "open" | "closed"
    result,      \* rows the cursor holds after the SELECT
    doc_id,
    content,
    request,     \* the arguments of openai.Embedding.create (history)
    response,
    embedding,
    pending,     \* uncommitted writes of the run's transaction
    ops,         \* SQL statements the run executed, in order (history)
    printed,     \* lines the run printed
    \* ---- PDF dumper
    fs,          \* what the filesystem holds for each file looked at so far
    idx,         \* index into pdf_files of the file being processed
    ppc,         \* position inside the loop body / extract_pdf_text
    file,        \* the handle of extract_pdf_text: "none" | "open" | "closed"
    exc,         \* the exception being handled, "" when none
    page_num,
    text,
    ret,         \* value returned by extract_pdf_text (variable content)
    calls,       \* paths extract_pdf_text was called with (history)
    stdout       \* the strings printed, one per print call

evars == <<runs, dotenv, db, db0, lock, commitOrder, fetchOrder, pc, fault,
           api_key, conn, cur, result, doc_id, content, request, response,
           embedding, pending, ops, printed>>
pvars == <<fs, idx, ppc, file, exc, page_num, text, ret, calls, stdout>>
vars == <<evars, pvars>>

\* ------------------------------------------------------------ Python values
\* A string is the sequence of its characters (character codes); None, str
\* and list values carry their type so that they can be told apart.
None == [type |-> "NoneType", val |-> <<>>]
Str(s) == [type |-> "str", val |-> s]
List(v) == [type |-> "list", val |-> v]

Min(a, b) == IF a < b THEN a ELSE b

\* a faulty variant of Slice: the bound is off by one
SliceOneMore(s, n) == [i \in 1..Min(Len(s), n + 1) |-> s[i]]
\* s[:n] for n >= 0: the first n items of s, all of s when it is shorter
Slice(s, n) == [i \in 1..Min(Len(s), n) |-> s[i]]

\* One printed line of the updater: a format with its string and number
Line(fmt, s, n) == [fmt |-> fmt, str |-> s, num |-> n]

\* ------------------------------------------------------------- environment
\* A text of n characters whose characters vary with the position
Chars(n, p) == [i \in 1..n |-> (i * p) % 7]
ContentLens == {0, 1} \cup ((TruncLen - Slack)..(TruncLen + Slack))
Contents == {None} \cup {Str(Chars(n, p)) : n \in ContentLens, p \in {1}}

\* A vector of n numbers
Vec(n, seed) == [i \in 1..n |-> (i + seed) % 5]
Dims == {0, EmbeddingDim - 1, EmbeddingDim, EmbeddingDim + 1}
Vectors == {Vec(n, s) : n \in Dims, s \in 1..MaxSeed}

Row(c, e) == [processed_content |-> c, embedding |-> e]
OtherRow == Row(Str(<<3, 1, 4>>), None)
\* The table either has the document or lacks it; the embedding column is
\* null until populated, or holds a vector written earlier.
Tables ==
    {(OtherId :> OtherRow)} \cup
    {(OtherId :> OtherRow) @@ (DocId :> Row(c, e)) :
        c \in Contents, e \in {None, List(Vec(EmbeddingDim, 0))}}
ConcTables ==
    {(OtherId :> OtherRow) @@ (DocId :> Row(Str(Chars(n, 1)), None)) :
        n \in {1, TruncLen + 1}}

\* The vector column has a fixed dimensionality: a value of another
\* dimensionality (or a non-vector) is rejected by the database.
ColumnAccepts(v) == v.type = "list" /\ Len(v.val) = EmbeddingDim

\* The embedding service authenticates a request by its bearer key; a
\* request carrying no key is rejected (the call raises).
Authenticated(key) == key # ""

\* --------------------------------------------------------------- database
\* SELECT id, processed_content FROM documents WHERE id = <id>
SelectRows(table, id) ==
    IF id \in DOMAIN table
    THEN <<[id |-> id, processed_content |-> table[id].processed_content]>>
    ELSE <<>>

\* a faulty variant of Matched: an UPDATE without its WHERE clause
MatchedAll(table, id) == DOMAIN table
\* the rows a WHERE id = <id> clause selects
Matched(table, id) == {k \in DOMAIN table : k = id}

\* a faulty variant of ApplyWrites: only a row without embedding is written
ApplyWritesIfNull(table, ws) ==
    [k \in DOMAIN table |->
        IF table[k].embedding = None /\ \E i \in 1..Len(ws) : ws[i].id = k
        THEN LET last == CHOOSE i \in 1..Len(ws) :
                     /\ ws[i].id = k
                     /\ \A j \in 1..Len(ws) : ws[j].id = k => j <= i
             IN  [table[k] EXCEPT !.embedding = ws[last].embedding]
        ELSE table[k]]
\* the writes of a committed transaction applied to the table: each write
\* replaces the embedding field of its row, and nothing else
ApplyWrites(table, ws) ==
    [k \in DOMAIN table |->
        IF \E i \in 1..Len(ws) : ws[i].id = k
        THEN LET last == CHOOSE i \in 1..Len(ws) :
                     /\ ws[i].id = k
                     /\ \A j \in 1..Len(ws) : ws[j].id = k => j <= i
             IN  [table[k] EXCEPT !.embedding = ws[last].embedding]
        ELSE table[k]]

\* a set of ids as a sequence of writes of embedding e
RECURSIVE WritesOf(_, _)
WritesOf(ids, e) ==
    IF ids = {} THEN <<>>
    ELSE LET k == CHOOSE x \in ids : TRUE
         IN  <<[id |-> k, embedding |-> e]>> \o WritesOf(ids \ {k}, e)

\* ------------------------------------------------------- embedding updater
\* run r exists and is about to execute line l
At(r, l) == r \in runs /\ pc[r] = l
Goto(r, l) == pc' = [pc EXCEPT ![r] = l]

\* An exception nothing catches: the process terminates. The server aborts
\* the open transaction of the dropped connection, which discards its
\* writes and frees its row locks; no statement after the raise is run.
Raise(r, f) ==
    /\ Goto(r, "failed")
    /\ fault' = [fault EXCEPT ![r] = f]
    /\ pending' = [pending EXCEPT ![r] = <<>>]
    /\ lock' = [k \in DOMAIN lock |-> IF lock[k] = r THEN 0 ELSE lock[k]]

\* lines 8-9
ReadKey(r) ==
    /\ At(r, "L8")
    /\ api_key' = [api_key EXCEPT ![r] = dotenv]
    /\ Goto(r, "L12")
    /\ UNCHANGED <<pvars, runs, dotenv, db, db0, lock, commitOrder, fetchOrder, fault,
                   conn, cur, result, doc_id, content, request, response,
                   embedding, pending, ops, printed>>

\* lines 12-14
Connect(r) ==
    /\ At(r, "L12")
    /\ conn' = [conn EXCEPT ![r] = "open"]
    /\ cur' = [cur EXCEPT ![r] = "open"]
    /\ Goto(r, "L17")
    /\ UNCHANGED <<pvars, runs, dotenv, db, db0, lock, commitOrder, fetchOrder, fault,
                   api_key, result, doc_id, content, request, response,
                   embedding, pending, ops, printed>>

\* line 12, the database cannot be reached
ConnectRaise(r) ==
    /\ At(r, "L12")
    /\ Raise(r, "connect")
    /\ UNCHANGED <<pvars, runs, dotenv, db, db0, commitOrder, fetchOrder,
                   api_key, conn, cur, result, doc_id, content, request,
                   response, embedding, ops, printed>>

\* line 17
ExecuteSelect(r) ==
    /\ At(r, "L17")
    /\ result' = [result EXCEPT ![r] = SelectRows(db, DocId)]
    /\ ops' = [ops EXCEPT ![r] = Append(@, "SELECT")]
    /\ fetchOrder' = Append(fetchOrder, r)
    /\ Goto(r, "L18")
    /\ UNCHANGED <<pvars, runs, dotenv, db, db0, lock, commitOrder, fault,
                   api_key, conn, cur, doc_id, content, request, response,
                   embedding, pending, printed>>

\* line 17, the statement raises
ExecuteSelectRaise(r) ==
    /\ At(r, "L17")
    /\ Raise(r, "select")
    /\ UNCHANGED <<pvars, runs, dotenv, db, db0, commitOrder, fetchOrder,
                   api_key, conn, cur, result, doc_id, content, request,
                   response, embedding, ops, printed>>

\* line 18: fetchone() is None when no row matched, and unpacking None raises
FetchOne(r) ==
    /\ At(r, "L18")
    /\ IF result[r] = <<>>
       THEN /\ Raise(r, "fetchone")
            /\ UNCHANGED <<doc_id, content>>
       ELSE /\ doc_id' = [doc_id EXCEPT ![r] = result[r][1].id]
            /\ content' = [content EXCEPT ![r] = result[r][1].processed_content]
            /\ Goto(r, "L20")
            /\ UNCHANGED <<fault, lock, pending>>
    /\ UNCHANGED <<pvars, runs, dotenv, db, db0, commitOrder, fetchOrder,
                   api_key, conn, cur, result, request, response, embedding,
                   ops, printed>>

\* lines 20-21: len(None) raises, after the first line was printed
PrintInfo(r) ==
    /\ At(r, "L20")
    /\ IF content[r].type = "NoneType"
       THEN /\ printed' = [printed EXCEPT ![r] =
                   Append(@, Line("Generating embedding for document {}",
                                  doc_id[r], 0))]
            /\ Raise(r, "len")
       ELSE /\ printed' = [printed EXCEPT ![r] =
                   @ \o <<Line("Generating embedding for document {}",
                               doc_id[r], 0),
                          Line("Content length: {} characters", "",
                               Len(content[r].val))>>]
            /\ Goto(r, "L24")
            /\ UNCHANGED <<fault, lock, pending>>
    /\ UNCHANGED <<pvars, runs, dotenv, db, db0, commitOrder, fetchOrder,
                   api_key, conn, cur, result, doc_id, content, request,
                   response, embedding, ops>>

\* the keyword arguments of the call at lines 24-27
CreateArgs(r) ==
    [input |-> Str(Slice(content[r].val, TruncLen)), model |-> EmbeddingModel]

\* lines 24-27, the service answers with a vector
EmbeddingCreate(r) ==
    /\ At(r, "L24")
    /\ Authenticated(api_key[r])
    /\ request' = [request EXCEPT ![r] = CreateArgs(r)]
    /\ \E v \in Vectors :
          response' = [response EXCEPT ![r] = [data |-> <<[embedding |-> v]>>]]
    /\ Goto(r, "L28")
    /\ UNCHANGED <<pvars, runs, dotenv, db, db0, lock, commitOrder, fetchOrder, fault,
                   api_key, conn, cur, result, doc_id, content, embedding,
                   pending, ops, printed>>

\* a faulty variant of EmbeddingCreateRaise: the exception is swallowed and
\* the run goes on with a made-up vector
EmbeddingCreateSwallow(r) ==
    /\ At(r, "L24")
    /\ request' = [request EXCEPT ![r] = CreateArgs(r)]
    /\ fault' = [fault EXCEPT ![r] = "embedding"]
    /\ response' = [response EXCEPT ![r] =
            [data |-> <<[embedding |-> Vec(EmbeddingDim, 0)]>>]]
    /\ Goto(r, "L28")
    /\ UNCHANGED <<pvars, runs, dotenv, db, db0, lock, commitOrder, fetchOrder,
                   api_key, conn, cur, result, doc_id, content, embedding,
                   pending, ops, printed>>
\* lines 24-27, the call raises (network, authentication, rate limit, ...)
EmbeddingCreateRaise(r) ==
    /\ At(r, "L24")
    /\ request' = [request EXCEPT ![r] = CreateArgs(r)]
    /\ Raise(r, "embedding")
    /\ UNCHANGED <<pvars, runs, dotenv, db, db0, commitOrder, fetchOrder,
                   api_key, conn, cur, result, doc_id, content, response,
                   embedding, ops, printed>>

\* lines 28-29
ExtractEmbedding(r) ==
    /\ At(r, "L28")
    /\ embedding' = [embedding EXCEPT ![r] = List(response[r].data[1].embedding)]
    /\ printed' = [printed EXCEPT ![r] =
            Append(@, Line("Generated embedding with {} dimensions", "",
                           Len(response[r].data[1].embedding)))]
    /\ Goto(r, "L32")
    /\ UNCHANGED <<pvars, runs, dotenv, db, db0, lock, commitOrder, fetchOrder, fault,
                   api_key, conn, cur, result, doc_id, content, request,
                   response, pending, ops>>

\* v cut or zero-filled to n numbers
Fit(v, n) == [i \in 1..n |-> IF i <= Len(v) THEN v[i] ELSE 0]

\* a faulty variant of UpdateParams: the vector is made to fit the column
UpdateParamsFitted(r) == <<List(Fit(embedding[r].val, EmbeddingDim)), doc_id[r]>>
\* the parameters of the UPDATE statement, lines 33-34
UpdateParams(r) == <<embedding[r], doc_id[r]>>

\* lines 32-35. The statement waits while another transaction holds the
\* write lock of a row it selects; the column rejects a vector of another
\* dimensionality.
ExecuteUpdate(r) ==
    /\ At(r, "L32")
    /\ LET p == UpdateParams(r)
           rows == Matched(db, p[2])
       IN  /\ \A k \in rows : lock[k] \in {0, r}
           /\ ops' = [ops EXCEPT ![r] = Append(@, "UPDATE")]
           /\ IF ~ColumnAccepts(p[1])
              THEN Raise(r, "dimension")
              ELSE /\ pending' = [pending EXCEPT ![r] = @ \o WritesOf(rows, p[1])]
                   /\ lock' = [k \in DOMAIN lock |->
                                  IF k \in rows THEN r ELSE lock[k]]
                   /\ Goto(r, "L36")
                   /\ UNCHANGED fault
    /\ UNCHANGED <<pvars, runs, dotenv, db, db0, commitOrder, fetchOrder,
                   api_key, conn, cur, result, doc_id, content, request,
                   response, embedding, printed>>

\* lines 32-35, the statement raises for another reason
ExecuteUpdateRaise(r) ==
    /\ At(r, "L32")
    /\ ops' = [ops EXCEPT ![r] = Append(@, "UPDATE")]
    /\ Raise(r, "update")
    /\ UNCHANGED <<pvars, runs, dotenv, db, db0, commitOrder, fetchOrder,
                   api_key, conn, cur, result, doc_id, content, request,
                   response, embedding, printed>>

\* line 36
Commit(r) ==
    /\ At(r, "L36")
    /\ db' = ApplyWrites(db, pending[r])
    /\ pending' = [pending EXCEPT ![r] = <<>>]
    /\ lock' = [k \in DOMAIN lock |-> IF lock[k] = r THEN 0 ELSE lock[k]]
    /\ ops' = [ops EXCEPT ![r] = Append(@, "COMMIT")]
    /\ commitOrder' = Append(commitOrder, r)
    /\ Goto(r, "L37")
    /\ UNCHANGED <<pvars, runs, dotenv, db0, fetchOrder, fault,
                   api_key, conn, cur, result, doc_id, content, request,
                   response, embedding, printed>>

\* line 36, the commit raises
CommitRaise(r) ==
    /\ At(r, "L36")
    /\ ops' = [ops EXCEPT ![r] = Append(@, "COMMIT")]
    /\ Raise(r, "commit")
    /\ UNCHANGED <<pvars, runs, dotenv, db, db0, commitOrder, fetchOrder,
                   api_key, conn, cur, result, doc_id, content, request,
                   response, embedding, printed>>

\* line 37
PrintUpdated(r) ==
    /\ At(r, "L37")
    /\ printed' = [printed EXCEPT ![r] =
            Append(@, Line("Document embedding updated successfully", "", 0))]
    /\ Goto(r, "L39")
    /\ UNCHANGED <<pvars, runs, dotenv, db, db0, lock, commitOrder, fetchOrder, fault,
                   api_key, conn, cur, result, doc_id, content, request,
                   response, embedding, pending, ops>>

\* lines 39-40
Close(r) ==
    /\ At(r, "L39")
    /\ cur' = [cur EXCEPT ![r] = "closed"]
    /\ conn' = [conn EXCEPT ![r] = "closed"]
    /\ Goto(r, "done")
    /\ UNCHANGED <<pvars, runs, dotenv, db, db0, lock, commitOrder, fetchOrder, fault,
                   api_key, result, doc_id, content, request, response,
                   embedding, pending, ops, printed>>

\* ------------------------------------------------------------- PDF dumper
\* A path is the sequence of its components; a printed or returned string
\* is a sequence of tokens, each a literal, a repeated character, a number,
\* the text of a page or the text of an exception.
Lit(s) == [k |-> "lit", s |-> s, n |-> 0]
Rep(c, n) == [k |-> "rep", s |-> c, n |-> n]
Num(n) == [k |-> "int", s |-> "", n |-> n]
ExcText(e) == [k |-> "exc", s |-> e, n |-> 0]

Project == <<"Users", "bhagya", "work", "personal", "engramiq">>
pdf_files ==
    << Project \o <<"Supporting-Documents", "Sample-Reports.pdf">>,
       Project \o <<"Supporting-Documents", "STYLE-GUIDE.pdf">>,
       Project \o <<"Engramiq_Tech_lead_assignment.pdf">>,
       Project \o <<"Engramiq__PRD_RAwidget.pdf">> >>

\* os.path.basename
basename(path) == path[Len(path)]

\* the path as it is interpolated into a string: /a/b/c
RECURSIVE PathStr(_)
PathStr(path) ==
    IF path = <<>> THEN <<>>
    ELSE <<Lit("/"), Lit(Head(path))>> \o PathStr(Tail(path))

\* What the filesystem holds at a path: nothing, a file that cannot be
\* opened, a file the PDF reader rejects, or a PDF of `pages` pages of which
\* page `bad` (0: none) makes extract_text raise.
Missing == [exists |-> FALSE, open |-> FALSE, parse |-> FALSE, pages |-> 0, bad |-> 0]
Unreadable == [exists |-> TRUE, open |-> FALSE, parse |-> FALSE, pages |-> 0, bad |-> 0]
Corrupt == [exists |-> TRUE, open |-> TRUE, parse |-> FALSE, pages |-> 0, bad |-> 0]
Pdf(n, b) == [exists |-> TRUE, open |-> TRUE, parse |-> TRUE, pages |-> n, bad |-> b]
FileKinds ==
    {Missing, Unreadable, Corrupt} \cup
    UNION {{Pdf(n, b) : b \in 0..n} : n \in 0..MaxPages}

\* page.extract_text() of page k (counted from 1) of the file
PageText(path, k) == <<[k |-> "text", s |-> basename(path), n |-> k]>>

\* a faulty variant of PageBanner: pages numbered from 0
PageBannerZeroBased(n) == <<Lit("\n--- Page "), Num(n), Lit(" ---\n")>>
\* f"\n--- Page {page_num + 1} ---\n", n being page_num
PageBanner(n) == <<Lit("\n--- Page "), Num(n + 1), Lit(" ---\n")>>

\* f"Error reading {pdf_path}: {str(e)}"
ErrorMessage(pdf_path, e) ==
    <<Lit("Error reading ")>> \o PathStr(pdf_path) \o <<Lit(": "), ExcText(e)>>

\* f"File not found: {pdf_file}"
NotFoundMessage(pdf_file) == <<Lit("File not found: ")>> \o PathStr(pdf_file)

\* the three print calls of lines 28-30 and of lines 38-40
BeginBanner(pdf_file) ==
    << <<Lit("\n"), Rep("=", BannerWidth)>>,
       <<Lit("EXTRACTING: "), Lit(basename(pdf_file))>>,
       <<Rep("=", BannerWidth)>> >>
EndBanner(pdf_file) ==
    << <<Lit("\n"), Rep("=", BannerWidth)>>,
       <<Lit("END OF: "), Lit(basename(pdf_file))>>,
       <<Rep("=", BannerWidth), Lit("\n")>> >>

pdf_file == pdf_files[idx]

\* lines 27-30: the next file of the list, and its opening banner
PrintBegin ==
    /\ ppc = "L28"
    /\ stdout' = stdout \o BeginBanner(pdf_file)
    /\ ppc' = "L32"
    /\ UNCHANGED <<evars, fs, idx, file, exc, page_num, text, ret, calls>>

\* lines 32-33: the file exists, extract_pdf_text is called (its locals are
\* those of a new call)
FileExists ==
    /\ ppc = "L32"
    /\ \E kind \in FileKinds :
          /\ kind.exists
          /\ fs' = fs @@ (idx :> kind)
    /\ calls' = Append(calls, pdf_file)
    /\ file' = "none"
    /\ exc' = ""
    /\ text' = <<>>
    /\ page_num' = 0
    /\ ppc' = "L8"
    /\ UNCHANGED <<evars, idx, ret, stdout>>

\* a faulty variant of FileMissing: the batch stops at the missing file
FileMissingAbort ==
    /\ ppc = "L32"
    /\ \E kind \in FileKinds :
          /\ ~kind.exists
          /\ fs' = fs @@ (idx :> kind)
    /\ stdout' = Append(stdout, NotFoundMessage(pdf_file))
    /\ ppc' = "done"
    /\ UNCHANGED <<evars, idx, file, exc, page_num, text, ret, calls>>
\* lines 32, 35-36: the file does not exist
FileMissing ==
    /\ ppc = "L32"
    /\ \E kind \in FileKinds :
          /\ ~kind.exists
          /\ fs' = fs @@ (idx :> kind)
    /\ stdout' = Append(stdout, NotFoundMessage(pdf_file))
    /\ ppc' = "L38"
    /\ UNCHANGED <<evars, idx, file, exc, page_num, text, ret, calls>>

\* line 8: open(pdf_path, 'rb') raises, or enters the with block
Open ==
    /\ ppc = "L8"
    /\ IF fs[idx].open
       THEN /\ file' = "open"
            /\ ppc' = "L9"
            /\ UNCHANGED exc
       ELSE /\ exc' = "open"
            /\ ppc' = "L16"
            /\ UNCHANGED file
    /\ UNCHANGED <<evars, fs, idx, page_num, text, ret, calls, stdout>>

\* where the page loop of line 11 goes with n pages done: the body, or the
\* return of line 15
PageLoop(n) == IF n < fs[idx].pages THEN "L12" ELSE "L15"

\* lines 9-11: PyPDF2.PdfReader(file) raises (leaving the with block closes
\* the file), or text = "" and the loop over the pages starts
Reader ==
    /\ ppc = "L9"
    /\ IF fs[idx].parse
       THEN /\ text' = <<>>
            /\ page_num' = 0
            /\ ppc' = PageLoop(0)
            /\ UNCHANGED <<file, exc>>
       ELSE /\ exc' = "reader"
            /\ file' = "closed"
            /\ ppc' = "L16"
            /\ UNCHANGED <<text, page_num>>
    /\ UNCHANGED <<evars, fs, idx, ret, calls, stdout>>

\* lines 12-14, then line 11: the banner is appended before extract_text is
\* called, so it is in text when extract_text raises
Page ==
    /\ ppc = "L12"
    /\ IF fs[idx].bad = page_num + 1
       THEN /\ text' = text \o PageBanner(page_num)
            /\ exc' = "extract_text"
            /\ file' = "closed"
            /\ ppc' = "L16"
            /\ UNCHANGED page_num
       ELSE /\ text' = text \o PageBanner(page_num)
                            \o PageText(pdf_file, page_num + 1)
            /\ page_num' = page_num + 1
            /\ ppc' = PageLoop(page_num + 1)
            /\ UNCHANGED <<file, exc>>
    /\ UNCHANGED <<evars, fs, idx, ret, calls, stdout>>

\* line 15: return text, leaving the with block closes the file
Return ==
    /\ ppc = "L15"
    /\ ret' = text
    /\ file' = "closed"
    /\ ppc' = "L34"
    /\ UNCHANGED <<evars, fs, idx, exc, page_num, text, calls, stdout>>

\* a faulty variant of HandlerValue: the text gathered so far is kept
HandlerValueWithText(t, pdf_path, e) == t \o ErrorMessage(pdf_path, e)
\* what the except clause of lines 16-17 returns, t being text
HandlerValue(t, pdf_path, e) == ErrorMessage(pdf_path, e)

\* lines 16-17
Except ==
    /\ ppc = "L16"
    /\ ret' = HandlerValue(text, pdf_file, exc)
    /\ ppc' = "L34"
    /\ UNCHANGED <<evars, fs, idx, file, exc, page_num, text, calls, stdout>>

\* lines 33-34: content = <returned value>; print(content)
PrintContent ==
    /\ ppc = "L34"
    /\ stdout' = Append(stdout, ret)
    /\ ppc' = "L38"
    /\ UNCHANGED <<evars, fs, idx, file, exc, page_num, text, ret, calls>>

\* lines 38-40, then line 27
PrintEnd ==
    /\ ppc = "L38"
    /\ stdout' = stdout \o EndBanner(pdf_file)
    /\ idx' = idx + 1
    /\ ppc' = IF idx + 1 <= Len(pdf_files) THEN "L28" ELSE "done"
    /\ UNCHANGED <<evars, fs, file, exc, page_num, text, ret, calls>>

\* ---------------------------------------------------------- specifications
\* The updater's state before line 8 of each run in R
EInit(R, tables, keys) ==
    /\ runs = R
    /\ dotenv \in keys
    /\ db \in tables
    /\ db0 = db
    /\ lock = [k \in DOMAIN db |-> 0]
    /\ commitOrder = <<>>
    /\ fetchOrder = <<>>
    /\ pc = [r \in R |-> "L8"]
    /\ fault = [r \in R |-> ""]
    /\ api_key = [r \in R |-> ""]
    /\ conn = [r \in R |-> "none"]
    /\ cur = [r \in R |-> "none"]
    /\ result = [r \in R |-> <<>>]
    /\ doc_id = [r \in R |-> ""]
    /\ content = [r \in R |-> None]
    /\ request = [r \in R |-> [input |-> None, model |-> ""]]
    /\ response = [r \in R |-> [data |-> <<>>]]
    /\ embedding = [r \in R |-> None]
    /\ pending = [r \in R |-> <<>>]
    /\ ops = [r \in R |-> <<>>]
    /\ printed = [r \in R |-> <<>>]

\* The dumper's state before the loop of line 27
PInit ==
    /\ fs = <<>>
    /\ idx = 1
    /\ ppc = "L28"
    /\ file = "none"
    /\ exc = ""
    /\ page_num = 0
    /\ text = <<>>
    /\ ret = <<>>
    /\ calls = <<>>
    /\ stdout = <<>>

Keys == {"", "sk-0123"}

\* One run of the embedding updater
Init == EInit({1}, Tables, Keys) /\ PInit
Next ==
    \E r \in ConcRuns :
       \/ ReadKey(r)
       \/ Connect(r)
       \/ ConnectRaise(r)
       \/ ExecuteSelect(r)
       \/ ExecuteSelectRaise(r)
       \/ FetchOne(r)
       \/ PrintInfo(r)
       \/ EmbeddingCreate(r)
       \/ EmbeddingCreateRaise(r)
       \/ ExtractEmbedding(r)
       \/ ExecuteUpdate(r)
       \/ ExecuteUpdateRaise(r)
       \/ Commit(r)
       \/ CommitRaise(r)
       \/ PrintUpdated(r)
       \/ Close(r)
Spec == Init /\ [][Next]_vars

\* Two runs of the embedding updater against the same row
InitConc == EInit(ConcRuns, ConcTables, {"sk-0123"}) /\ PInit
SpecConc == InitConc /\ [][Next]_vars

\* One run of the PDF dumper
InitPdf == EInit({}, {(OtherId :> OtherRow)}, {""}) /\ PInit
NextPdf ==
    \/ PrintBegin
    \/ FileExists
    \/ FileMissing
    \/ Open
    \/ Reader
    \/ Page
    \/ Return
    \/ Except
    \/ PrintContent
    \/ PrintEnd
SpecPdf == InitPdf /\ [][NextPdf]_vars

\* ------------------------------------------------------------- properties
Has(seq, x) == \E i \in 1..Len(seq) : seq[i] = x
Last(seq) == seq[Len(seq)]
\* the run has made the call of lines 24-27
Called(r) == request[r].model # ""
\* the run has unpacked a fetched row (line 18)
Fetched(r) == doc_id[r] # ""
\* the run has received the answer of the embedding service
Answered(r) == response[r].data # <<>>
Returned(r) == response[r].data[1].embedding

\* C1: the input passed to the embedding service is exactly the first 8000
\* characters of a fetched content longer than 8000 characters, and the
\* whole content when it has at most 8000 characters.
C1_InputIsFirst8000 ==
    \A r \in runs :
        Called(r) =>
            LET c == content[r].val
                inp == request[r].input
            IN  /\ inp.type = "str"
                /\ Len(c) > 8000 =>
                      /\ Len(inp.val) = 8000
                      /\ \A i \in 1..8000 : inp.val[i] = c[i]
                /\ Len(c) <= 8000 => inp.val = c

\* a content of more than 8000 characters was sent to a service that answered
C1_Witness ==
    \E r \in runs :
        /\ Answered(r)
        /\ Len(content[r].val) > 8000
        /\ Len(request[r].input.val) = 8000

\* C2: a run that fetched a null or empty content fails before the UPDATE and
\* the commit, whatever the embedding service returns: it executes neither
\* statement and never gets past the embedding call.
C2_EmptyContentFails ==
    \A r \in runs :
        (Fetched(r) /\ content[r] \in {None, Str(<<>>)}) =>
            /\ ~Has(ops[r], "UPDATE")
            /\ ~Has(ops[r], "COMMIT")
            /\ pc[r] \notin {"L32", "L36", "L37", "L39", "done"}

\* the part of C2 the code satisfies: a null content ends the run at line 21
C2_NullContentFails ==
    \A r \in runs :
        (Fetched(r) /\ content[r] = None) =>
            /\ ~Has(ops[r], "UPDATE")
            /\ ~Has(ops[r], "COMMIT")
            /\ pc[r] \in {"L20", "failed"}

\* faults of the steps that precede the write
PreWriteFaults == {"connect", "select", "fetchone", "len", "embedding"}

\* C3: when a step before the write fails (no connection, no row for the
\* identifier, the embedding call raises) the run is terminated, has executed
\* neither UPDATE nor commit and the table is as it was before the run; a run
\* that read an empty key never gets past the embedding call either.
C3_FailureBeforeWrite ==
    \A r \in runs :
        /\ fault[r] \in PreWriteFaults =>
              /\ pc[r] = "failed"
              /\ ~Has(ops[r], "UPDATE")
              /\ ~Has(ops[r], "COMMIT")
              /\ db = db0
        /\ (r \in runs /\ pc[r] # "L8" /\ api_key[r] = "") =>
              /\ pc[r] \in {"L12", "L17", "L18", "L20", "L24", "failed"}
              /\ pc[r] = "failed" => fault[r] \in PreWriteFaults
              /\ ~Has(ops[r], "UPDATE")
              /\ ~Has(ops[r], "COMMIT")
              /\ db = db0

\* a run without a key failed at the embedding call, on a row that held a vector
C3_Witness ==
    \E r \in runs :
        /\ pc[r] = "failed"
        /\ fault[r] = "embedding"
        /\ api_key[r] = ""
        /\ conn[r] = "open"
        /\ DocId \in DOMAIN db
        /\ db[DocId].embedding # None

\* the output of file i of the list: the strings of its seven print calls
PerFile == 3 + 1 + 3
Out(i, j) == stdout[PerFile * (i - 1) + j]
Printed(i, j) == Len(stdout) >= PerFile * (i - 1) + j
Bar == [k |-> "rep", s |-> "=", n |-> 80]
\* "/" and the components of a path, in order
Slashed(path) ==
    [j \in 1..(2 * Len(path)) |->
        IF j % 2 = 1 THEN Lit("/") ELSE Lit(path[j \div 2])]

\* C4: a path that does not exist is never passed to extract_pdf_text, its
\* output is 'File not found: <path>' between its begin and end banners, and
\* the loop goes on to every remaining path of the list.
C4_MissingFile ==
    /\ \A i \in DOMAIN fs :
          ~fs[i].exists =>
              /\ ~Has(calls, pdf_files[i])
              /\ Printed(i, 4)
              /\ Out(i, 1) = <<Lit("\n"), Bar>>
              /\ Out(i, 2) = <<Lit("EXTRACTING: "), Lit(basename(pdf_files[i]))>>
              /\ Out(i, 3) = <<Bar>>
              /\ Out(i, 4) = <<Lit("File not found: ")>> \o Slashed(pdf_files[i])
              /\ idx = i => ppc = "L38"
              /\ idx > i =>
                    /\ Out(i, 5) = <<Lit("\n"), Bar>>
                    /\ Out(i, 6) = <<Lit("END OF: "), Lit(basename(pdf_files[i]))>>
                    /\ Out(i, 7) = <<Bar, Lit("\n")>>
    /\ ppc = "done" =>
          /\ DOMAIN fs = 1..Len(pdf_files)
          /\ idx = Len(pdf_files) + 1
          /\ Len(stdout) = PerFile * Len(pdf_files)

\* the batch ended after a missing first file, with a later file extracted
C4_Witness ==
    /\ ppc = "done"
    /\ ~fs[1].exists
    /\ \E i \in 2..Len(pdf_files) : fs[i].exists /\ Has(calls, pdf_files[i])
    /\ ~fs[Len(pdf_files)].exists

\* the file makes extract_pdf_text raise, and what str(e) is then
Fails(kind) == kind.exists /\ (~kind.open \/ ~kind.parse \/ kind.bad > 0)
ExcOf(kind) ==
    IF ~kind.open THEN "open" ELSE IF ~kind.parse THEN "reader" ELSE "extract_text"
ErrorOnly(i) ==
    <<Lit("Error reading ")>> \o Slashed(pdf_files[i])
        \o <<Lit(": "), [k |-> "exc", s |-> ExcOf(fs[i]), n |-> 0]>>

\* C5: when opening, parsing or extracting a page of an existing file raises,
\* extract_pdf_text returns only 'Error reading <path>: <exception text>'
\* (no page banner, no page text), and the main loop prints it and goes on
\* with the next file.
C5_ErrorIsolated ==
    /\ \A i \in DOMAIN fs :
          Fails(fs[i]) =>
              /\ (idx = i /\ ppc = "L34") =>
                    /\ ret = ErrorOnly(i)
                    /\ \A j \in 1..Len(ret) : ret[j].k \notin {"int", "text"}
              /\ (idx = i /\ ppc = "L38") \/ idx > i =>
                    /\ Out(i, 4) = ErrorOnly(i)
                    /\ \A j \in 1..Len(Out(i, 4)) : Out(i, 4)[j].k \notin {"int", "text"}
              /\ idx > i => Printed(i, 7)
              /\ idx = i => ppc \in {"L8", "L9", "L12", "L16", "L34", "L38"}
    /\ ppc = "done" =>
          /\ DOMAIN fs = 1..Len(pdf_files)
          /\ Len(stdout) = PerFile * Len(pdf_files)

\* the batch ended although extraction of the first file failed on its
\* second page, after a page was extracted; the second file was extracted
C5_Witness ==
    /\ ppc = "done"
    /\ fs[1].pages >= 2
    /\ fs[1].bad = 2
    /\ Out(1, 4) = ErrorOnly(1)
    /\ fs[2].exists /\ ~Fails(fs[2])

IsNum(t) == t.k = "int"

\* C6: for a PDF of n >= 1 pages that all extract, the returned string has
\* exactly n page banners, numbered 1..n in increasing order, each followed
\* at once by the text of its page.
C6_PageBanners ==
    (ppc = "L34" /\ fs[idx].parse /\ fs[idx].open /\ fs[idx].bad = 0
        /\ fs[idx].pages >= 1) =>
        LET n == fs[idx].pages IN
        /\ SelectSeq(ret, IsNum) = [k \in 1..n |-> [k |-> "int", s |-> "", n |-> k]]
        /\ Len(ret) = 4 * n
        /\ \A j \in 1..Len(ret) :
              ret[j].k = "int" =>
                  /\ j > 1 /\ j + 2 <= Len(ret)
                  /\ ret[j - 1] = Lit("\n--- Page ")
                  /\ ret[j + 1] = Lit(" ---\n")
                  /\ ret[j + 2] = [k |-> "text", s |-> basename(pdf_files[idx]),
                                   n |-> ret[j].n]
                  /\ j + 3 <= Len(ret) => ret[j + 3] = Lit("\n--- Page ")

\* a PDF of at least two pages was extracted
C6_Witness ==
    /\ ppc = "L34"
    /\ idx \in DOMAIN fs
    /\ fs[idx].pages >= 2
    /\ fs[idx].bad = 0
    /\ Len(ret) = 4 * fs[idx].pages

Committed(r) == Has(ops[r], "COMMIT") /\ fault[r] # "commit"

\* C7: a returned vector that has not the expected dimensionality (1536) ends
\* the run with an error and nothing is stored; in every run that commits the
\* stored embedding has 1536 numbers and is the returned vector itself.
C7_Dimensionality ==
    \A r \in runs :
        /\ (Answered(r) /\ Len(Returned(r)) # 1536) =>
              /\ pc[r] \in {"L28", "L32", "failed"}
              /\ Has(ops[r], "UPDATE") => (pc[r] = "failed" /\ fault[r] # "")
              /\ ~Has(ops[r], "COMMIT")
              /\ db = db0
        /\ Committed(r) =>
              /\ db[doc_id[r]].embedding.type = "list"
              /\ Len(db[doc_id[r]].embedding.val) = 1536
              /\ db[doc_id[r]].embedding.val = Returned(r)

\* the service returned a vector one number too long and the UPDATE raised
C7_Witness ==
    \E r \in runs :
        /\ pc[r] = "failed"
        /\ fault[r] = "dimension"
        /\ Len(Returned(r)) = 1537

\* C8: handles are released on every exit path: a terminated run that opened
\* the database connection has closed its cursor and its connection, and the
\* file handle of extract_pdf_text is closed once the function has returned.
C8_HandlesReleased ==
    /\ \A r \in runs :
          (pc[r] \in {"done", "failed"} /\ conn[r] # "none") =>
              (cur[r] = "closed" /\ conn[r] = "closed")
    /\ ppc \in {"L16", "L34", "L38", "L28", "L32", "done"} => file # "open"

\* the part of C8 the code satisfies: the with block of extract_pdf_text
\* closes the file on the return and on every raise after the open
C8_FileHandleReleased ==
    ppc \in {"L16", "L34", "L38", "L28", "L32", "done"} => file # "open"

\* C9: a completed run executed one SELECT, then one UPDATE, then one commit;
\* the UPDATE is of the row the SELECT returned; only that row's embedding
\* changed: contents, other rows and the set of rows are as before the run.
C9_OnlyEmbeddingOfTheRow ==
    /\ DOMAIN db = DOMAIN db0
    /\ \A k \in DOMAIN db : db[k].processed_content = db0[k].processed_content
    /\ \A r \in runs :
          /\ \A k \in DOMAIN db :
                db[k] # db0[k] => (Committed(r) /\ k = doc_id[r])
          /\ pc[r] = "done" =>
                /\ ops[r] = <<"SELECT", "UPDATE", "COMMIT">>
                /\ doc_id[r] = result[r][1].id
                /\ doc_id[r] = "e9eb2db2-29d9-480c-bbd1-b1666aa515c0"
                /\ db[doc_id[r]].embedding = embedding[r]

\* a run completed and replaced the vector the row held
C9_Witness ==
    \E r \in runs :
        /\ pc[r] = "done"
        /\ db0[DocId].embedding # None
        /\ db[DocId].embedding # db0[DocId].embedding

\* C10: concurrent runs on the same row never fail because of one another
\* and a run waits only for a run that is about to commit; the row holds the
\* vector of the run that committed last, which is the stored vector once
\* all have finished, whichever run fetched first.
C10_LastCommitWins ==
    /\ \A r \in runs :
          fault[r] \in {"", "connect", "select", "embedding", "dimension",
                        "update", "commit"}
    /\ \A k \in DOMAIN lock : lock[k] # 0 => pc[lock[k]] = "L36"
    /\ commitOrder # <<>> =>
          db[DocId].embedding = embedding[Last(commitOrder)]
    /\ (\A r \in runs : pc[r] = "done") =>
          /\ Len(commitOrder) = Cardinality(runs)
          /\ \A r \in runs : Has(commitOrder, r)

\* both runs finished; the run that fetched first committed last, and its
\* vector, which differs from the other run's, is the stored one
C10_Witness ==
    /\ \A r \in runs : pc[r] = "done"
    /\ Cardinality(runs) = 2
    /\ fetchOrder[1] = Last(commitOrder)
    /\ \E r \in runs : embedding[r] # embedding[Last(commitOrder)]
    /\ db[DocId].embedding = embedding[fetchOrder[1]]
====
